---- MODULE Spec2Model ----
(***************************************************************************)
(* Webhook security and compliance handling of the ChatWithAds Shopify app. *)
(*                                                                         *)
(* Strings that the code inspects character by character (request bodies,  *)
(* signature headers) are sequences of one-character strings.  Secrets,    *)
(* shop domains and error texts are opaque TLA+ strings.                   *)
(***************************************************************************)
EXTENDS Integers, Sequences, FiniteSets, TLC

VARIABLES
    env,        \* process.env: [SHOPIFY_API_SECRET |-> secret or ""]
    sessions,   \* prisma.session table: a set of rows
    connectors, \* prisma.connectorConfig table: a set of rows
    vin,        \* input of a verifyHmacSignature call
    vout,       \* result of that call (done is FALSE before the call)
    hlog,       \* compliance handler calls made so far, oldest first
    req,        \* request being handled by each delivery slot
    pc,         \* position of each delivery slot in its route's action
    loc,        \* local variables of each delivery slot
    resp,       \* HTTP status answered by each delivery slot (0: none yet)
    rbody,      \* body of the response of each delivery slot
    redeliv     \* redelivery bookkeeping of the webhook transport

vars == <<env, sessions, connectors, vin, vout, hlog, req, pc, loc, resp, rbody,
          redeliv>>

-----------------------------------------------------------------------------
(* Bounds *)

MaxLen == 2         \* longest body given to verifyHmacSignature directly
DigestLen == 2      \* bytes of a digest (32 for SHA-256, scaled down)
MaxOnline == 2      \* online session rows a table may hold
MaxCalls == 2       \* compliance handler calls in a row
MaxRedeliver == 1   \* redeliveries of one webhook by the transport

-----------------------------------------------------------------------------
(* Values *)

\* JavaScript null for a string value: a sequence no character string equals.
Null == <<"null">>
NoError == "undefined"      \* the error field of a valid result

Secrets == <<"", "k1", "k2">>   \* "" is the falsy secret
SecretSet == {Secrets[i] : i \in 1..Len(Secrets)}
EnvSecrets == {"", "k1"}

\* Characters a modelled body is made of.
BodyChars == <<"{", "}", "a", "b", "1", "2">>
BodyCharSet == {BodyChars[i] : i \in 1..Len(BodyChars)}

RECURSIVE SeqsUpTo(_, _)
SeqsUpTo(S, n) ==
    IF n = 0 THEN {<<>>}
    ELSE LET shorter == SeqsUpTo(S, n - 1)
         IN  shorter \cup {Append(s, c) : s \in shorter, c \in S}

\* No verifyHmacSignature call made, no delivery slot
NoVerifyInput ==
    [body |-> <<>>, secret |-> "", sigBody |-> <<>>, sigSecret |-> "",
     form |-> "null"]
NoVerifyResult ==
    [done |-> FALSE, raised |-> FALSE, valid |-> FALSE, error |-> NoError,
     digest |-> Null]
NoSlots == <<>>

-----------------------------------------------------------------------------
(* node:crypto and Buffer *)

B64 == <<"A","B","C","D","E","F","G","H","I","J","K","L","M",
         "N","O","P","Q","R","S","T","U","V","W","X","Y","Z",
         "a","b","c","d","e","f","g","h","i","j","k","l","m",
         "n","o","p","q","r","s","t","u","v","w","x","y","z",
         "0","1","2","3","4","5","6","7","8","9","+","/">>

\* Value of a base64 character, 64 for an illegal one.  Buffer.from also
\* accepts the URL-safe characters '-' and '_'.
Unbase64(c) ==
    IF c = "-" THEN 62
    ELSE IF c = "_" THEN 63
    ELSE IF \E i \in 1..64 : B64[i] = c
         THEN (CHOOSE i \in 1..64 : B64[i] = c) - 1
         ELSE 64

\* Buffer#toString('base64'): three bytes to four characters, '=' padding.
RECURSIVE Base64Encode(_)
Base64Encode(bytes) ==
    IF Len(bytes) = 0 THEN <<>>
    ELSE IF Len(bytes) = 1 THEN
        <<B64[(bytes[1] \div 4) + 1], B64[((bytes[1] % 4) * 16) + 1], "=", "=">>
    ELSE IF Len(bytes) = 2 THEN
        <<B64[(bytes[1] \div 4) + 1],
          B64[((bytes[1] % 4) * 16 + (bytes[2] \div 16)) + 1],
          B64[((bytes[2] % 16) * 4) + 1], "=">>
    ELSE
        <<B64[(bytes[1] \div 4) + 1],
          B64[((bytes[1] % 4) * 16 + (bytes[2] \div 16)) + 1],
          B64[((bytes[2] % 16) * 4 + (bytes[3] \div 64)) + 1],
          B64[(bytes[3] % 64) + 1]>>
        \o Base64Encode(SubSeq(bytes, 4, Len(bytes)))

\* The sextets Buffer.from(s, 'base64') reads: illegal characters are
\* skipped and decoding stops at the first '='.
RECURSIVE Sextets(_)
Sextets(s) ==
    IF Len(s) = 0 THEN <<>>
    ELSE IF Head(s) = "=" THEN <<>>
    ELSE IF Unbase64(Head(s)) = 64 THEN Sextets(Tail(s))
    ELSE <<Unbase64(Head(s))>> \o Sextets(Tail(s))

RECURSIVE SextetsToBytes(_)
SextetsToBytes(x) ==
    IF Len(x) < 2 THEN <<>>
    ELSE IF Len(x) = 2 THEN <<x[1] * 4 + (x[2] \div 16)>>
    ELSE IF Len(x) = 3 THEN
        <<x[1] * 4 + (x[2] \div 16), (x[2] % 16) * 16 + (x[3] \div 4)>>
    ELSE
        <<x[1] * 4 + (x[2] \div 16), (x[2] % 16) * 16 + (x[3] \div 4),
          (x[3] % 4) * 64 + x[4]>>
        \o SextetsToBytes(SubSeq(x, 5, Len(x)))

\* Buffer.from(s, 'base64')
Base64Decode(s) == SextetsToBytes(Sextets(s))

TimingSafeEqualLengthOnly(a, b) ==
    IF Len(a) # Len(b) THEN [threw |-> TRUE, equal |-> FALSE]
    ELSE [threw |-> FALSE, equal |-> TRUE]

\* crypto.timingSafeEqual: throws a RangeError on buffers of different
\* length, otherwise tells whether they are equal.
TimingSafeEqual(a, b) ==
    IF Len(a) # Len(b) THEN [threw |-> TRUE, equal |-> FALSE]
    ELSE [threw |-> FALSE, equal |-> (a = b)]

\* The error text built from the RangeError that timingSafeEqual throws.
RangeErrorResult ==
    "HMAC verification failed: Input buffers must have the same byte length"

CharCode(c) == CHOOSE i \in 1..Len(BodyChars) : BodyChars[i] = c
SecretCode(s) == (CHOOSE i \in 1..Len(Secrets) : Secrets[i] = s) - 1

Radix == Len(BodyChars) + 1
\* Longest body the keyed hash below tells apart: the route bodies are this long.
MaxBodyLen == MaxLen + 2

RECURSIVE Power(_, _)
Power(b, n) == IF n = 0 THEN 1 ELSE b * Power(b, n - 1)

RECURSIVE BodyCode(_)
BodyCode(body) ==
    IF Len(body) = 0 THEN 0
    ELSE CharCode(Head(body)) + Radix * BodyCode(Tail(body))

RECURSIVE ToBytes(_, _)
ToBytes(n, k) ==
    IF k = 0 THEN <<>> ELSE Append(ToBytes(n \div 256, k - 1), n % 256)

\* crypto.createHmac('sha256', secret).update(body, 'utf8').digest():
\* an ideal keyed hash, one-to-one on the bodies and secrets of the model,
\* DigestLen bytes long.
HmacDigest(body, secret) ==
    LET code == SecretCode(secret) * Power(Radix, MaxBodyLen) + BodyCode(body)
        mixed == (code * 25173 + 13849) % Power(256, DigestLen)
    IN  ToBytes(mixed, DigestLen)

\* hmac.digest('base64')
ComputedSignature(body, secret) == Base64Encode(HmacDigest(body, secret))

-----------------------------------------------------------------------------
(* WebhookSecurity *)

Sha256Prefix == <<"s","h","a","2","5","6","=">>
Sha1Prefix == <<"s","h","a","1","=">>

StartsWith(s, p) == Len(s) >= Len(p) /\ SubSeq(s, 1, Len(p)) = p

RemovePrefixSha1Only(signature) ==
    IF StartsWith(signature, Sha1Prefix)
        THEN SubSeq(signature, Len(Sha1Prefix) + 1, Len(signature))
    ELSE signature

\* signature.replace(/^(sha256=|sha1=)/, '')
RemovePrefix(signature) ==
    IF StartsWith(signature, Sha256Prefix)
        THEN SubSeq(signature, Len(Sha256Prefix) + 1, Len(signature))
    ELSE IF StartsWith(signature, Sha1Prefix)
        THEN SubSeq(signature, Len(Sha1Prefix) + 1, Len(signature))
    ELSE signature

\* No digest: crypto.createHmac was not called.
NoDigest == Null

\* A value verifyHmacSignature returns.  raised tells a call that returns
\* from one that ends in an exception; digest is the base64 digest the
\* call computed, if it computed one.
Result(valid, error, digest) ==
    [raised |-> FALSE, valid |-> valid, error |-> error, digest |-> digest]

CatchMissing(message, digest) ==
    [raised |-> TRUE, valid |-> FALSE, error |-> message, digest |-> digest]

\* catch (error) { return { valid: false, error: `HMAC verification
\* failed: ${error.message}` } }
Catch(message, digest) == Result(FALSE, message, digest)

MissingSignatureUnlessSecret(signature, secret, envSecret) ==
    (signature = Null \/ signature = <<>>) /\ (secret # "" \/ envSecret # "")

\* if (!signature), the first check of verifyHmacSignature
MissingSignature(signature, secret, envSecret) ==
    signature = Null \/ signature = <<>>

WebhookSecretDefaulted(secret, envSecret) ==
    IF secret # "" THEN secret ELSE IF envSecret # "" THEN envSecret ELSE "k2"

\* secret || process.env.SHOPIFY_API_SECRET
WebhookSecret(secret, envSecret) == IF secret # "" THEN secret ELSE envSecret

\* WebhookSecurity.verifyHmacSignature with process.env.SHOPIFY_API_SECRET
\* passed as envSecret.
VerifyHmacSignature(body, signature, secret, envSecret) ==
    IF MissingSignature(signature, secret, envSecret)
        THEN Result(FALSE, "Missing HMAC signature header", NoDigest)
    ELSE LET webhookSecret == WebhookSecret(secret, envSecret)
         IN  IF webhookSecret = ""
                THEN Result(FALSE,
                            "SHOPIFY_API_SECRET environment variable not set",
                            NoDigest)
             ELSE LET cleanSignature == RemovePrefix(signature)
                      computedSignature == ComputedSignature(body, webhookSecret)
                      cmp == TimingSafeEqual(Base64Decode(cleanSignature),
                                             Base64Decode(computedSignature))
                  IN  IF cmp.threw
                         THEN Catch(RangeErrorResult, computedSignature)
                      ELSE Result(cmp.equal,
                                  IF cmp.equal THEN NoError
                                  ELSE "Invalid HMAC signature",
                                  computedSignature)

\* WebhookTester.createTestSignature without and with the 'sha256=' prefix.
Sign(body, secret) == ComputedSignature(body, secret)
SignPrefixed(body, secret) == Sha256Prefix \o ComputedSignature(body, secret)

-----------------------------------------------------------------------------
(* The session and connector tables, and Prisma's queries on them *)

Shops == <<"a.myshopify.com", "b.myshopify.com">>
ShopSet == {Shops[i] : i \in 1..Len(Shops)}
CustomerIds == {1, 2}

Digits == <<"0", "1", "2", "3", "4", "5", "6", "7", "8", "9">>
\* Number.prototype.toString() on the customer ids of the model
NumberToString(n) == Digits[n + 1]

NoUser == "NULL"        \* userId column of an offline session
InitialScope == "read_orders"

\* Session ids: the offline session of the i-th shop is -i, online
\* sessions are 1..MaxOnline.
OfflineId(shop) == 0 - (CHOOSE i \in 1..Len(Shops) : Shops[i] = shop)


OfflineRows ==
    {[id |-> OfflineId(sh), shop |-> sh, userId |-> NoUser, scope |-> InitialScope] :
        sh \in ShopSet}
OnlineRows ==
    {[id |-> i, shop |-> sh, userId |-> NumberToString(c), scope |-> InitialScope] :
        i \in 1..MaxOnline, sh \in ShopSet, c \in CustomerIds}

ShopIndex(shop) == CHOOSE i \in 1..Len(Shops) : Shops[i] = shop
UserIndex(userId) == CHOOSE i \in 1..Len(Digits) : Digits[i] = userId
Online(table) == {r \in table : r.id > 0}

\* Session tables: the id is the primary key.  Online ids are handed out
\* from 1 on, shop by shop and user by user, which leaves out only tables
\* that differ from these in the ids of online sessions.
SessionTables ==
    {t \in SUBSET (OfflineRows \cup OnlineRows) :
        /\ \A r1, r2 \in t : r1.id = r2.id => r1 = r2
        /\ \A r \in Online(t) : r.id <= Cardinality(Online(t))
        /\ \A r1, r2 \in Online(t) : r1.id < r2.id =>
                \/ ShopIndex(r1.shop) < ShopIndex(r2.shop)
                \/ (r1.shop = r2.shop
                        /\ UserIndex(r1.userId) <= UserIndex(r2.userId))}

ConnectorTables ==
    {{}, {[shop |-> Shops[1], connectorId |-> "cwads-1", isActive |-> TRUE]}}

AnyValue == "*"              \* a field the where clause does not constrain

Matches(row, where) ==
    /\ (where.shop = AnyValue \/ row.shop = where.shop)
    /\ (where.userId = AnyValue \/ row.userId = where.userId)

\* prisma.session.findMany({ where })
FindMany(table, where) == {r \in table : Matches(r, where)}

DeleteOne(table, where) ==
    LET found == {r \in table : Matches(r, where)}
        gone == IF found = {} THEN {}
                ELSE {CHOOSE r \in found : \A q \in found : r.id >= q.id}
    IN  [table |-> table \ gone, count |-> Cardinality(gone)]

\* prisma.session.deleteMany({ where }): the table left and the count
DeleteMany(table, where) ==
    [table |-> {r \in table : ~Matches(r, where)},
     count |-> Cardinality({r \in table : Matches(r, where)})]

-----------------------------------------------------------------------------
(* ComplianceWebhookManager *)

\* ComplianceWebhookPayload: shop_domain and the optional customer
Payloads ==
    {[shop_domain |-> sh, hasCustomer |-> FALSE, customerId |-> 0] : sh \in ShopSet}
    \cup {[shop_domain |-> sh, hasCustomer |-> TRUE, customerId |-> c] :
            sh \in ShopSet, c \in CustomerIds}

MissingCustomerRequest == "Customer data missing from request"
MissingCustomerRedact == "Customer data missing from redaction request"

\* A handler's outcome: whether it threw and with what message, whether it
\* reached its session query, the session table it leaves, what it
\* returns (sessions) and the count it logs.
Outcome(threw, error, queried, table, found, count) ==
    [threw |-> threw, error |-> error, queried |-> queried, table |-> table,
     found |-> found, count |-> count]

DataRequestWhere(payload) == [shop |-> payload.shop_domain, userId |-> AnyValue]

HandleCustomerDataRequestDeleting(table, payload) ==
    IF ~payload.hasCustomer
        THEN Outcome(TRUE, MissingCustomerRequest, FALSE, table, {}, 0)
    ELSE Outcome(FALSE, NoError, TRUE,
                 DeleteMany(table, DataRequestWhere(payload)).table,
                 FindMany(table, DataRequestWhere(payload)), 0)

\* ComplianceWebhookManager.handleCustomerDataRequest
HandleCustomerDataRequest(table, payload) ==
    IF ~payload.hasCustomer
        THEN Outcome(TRUE, MissingCustomerRequest, FALSE, table, {}, 0)
    ELSE Outcome(FALSE, NoError, TRUE, table,
                 FindMany(table, DataRequestWhere(payload)), 0)

CustomerRedactWhereShopOnly(payload) ==
    [shop |-> payload.shop_domain, userId |-> AnyValue]

\* where: { shop: payload.shop_domain, userId: payload.customer.id.toString() }
CustomerRedactWhere(payload) ==
    [shop |-> payload.shop_domain, userId |-> NumberToString(payload.customerId)]

HandleCustomerRedactUnchecked(table, payload) ==
    LET where == IF payload.hasCustomer THEN CustomerRedactWhere(payload)
                 ELSE [shop |-> payload.shop_domain, userId |-> AnyValue]
        deletedSessions == DeleteMany(table, where)
    IN  Outcome(FALSE, NoError, TRUE, deletedSessions.table, {},
                deletedSessions.count)

\* ComplianceWebhookManager.handleCustomerRedact
HandleCustomerRedact(table, payload) ==
    IF ~payload.hasCustomer
        THEN Outcome(TRUE, MissingCustomerRedact, FALSE, table, {}, 0)
    ELSE LET deletedSessions == DeleteMany(table, CustomerRedactWhere(payload))
         IN  Outcome(FALSE, NoError, TRUE, deletedSessions.table, {},
                     deletedSessions.count)

ShopRedactWhereOffline(payload) == [shop |-> payload.shop_domain, userId |-> NoUser]

\* where: { shop: payload.shop_domain }
ShopRedactWhere(payload) == [shop |-> payload.shop_domain, userId |-> AnyValue]

\* ComplianceWebhookManager.handleShopRedact
HandleShopRedact(table, payload) ==
    LET deletedSessions == DeleteMany(table, ShopRedactWhere(payload))
    IN  Outcome(FALSE, NoError, TRUE, deletedSessions.table, {},
                deletedSessions.count)

-----------------------------------------------------------------------------
(* Handler calls in a row on one session table, as testComplianceHandlers  *)
(* makes them                                                              *)

InitHandlers ==
    /\ env = [SHOPIFY_API_SECRET |-> "k1"]
    /\ sessions \in SessionTables
    /\ connectors \in ConnectorTables
    /\ hlog = <<>>
    /\ vin = NoVerifyInput
    /\ vout = NoVerifyResult
    /\ req = NoSlots
    /\ pc = NoSlots
    /\ loc = NoSlots
    /\ resp = NoSlots
    /\ rbody = NoSlots
    /\ redeliv = NoSlots

\* The record of one call: the handler, its payload, the session table
\* before and after it, and its outcome.
CallRecord(op, payload, out) ==
    [op |-> op, payload |-> payload, before |-> sessions, after |-> out.table,
     threw |-> out.threw, error |-> out.error, queried |-> out.queried,
     found |-> out.found, count |-> out.count]

Call(op, payload, out) ==
    /\ Len(hlog) < MaxCalls
    /\ sessions' = out.table
    /\ hlog' = Append(hlog, CallRecord(op, payload, out))
    /\ UNCHANGED <<env, connectors, vin, vout, req, pc, loc, resp, rbody, redeliv>>

CallCustomerDataRequest ==
    \E payload \in Payloads :
        Call("customers/data_request", payload,
             HandleCustomerDataRequest(sessions, payload))

CallCustomerRedact ==
    \E payload \in Payloads :
        Call("customers/redact", payload, HandleCustomerRedact(sessions, payload))

CallShopRedact ==
    \E payload \in Payloads :
        Call("shop/redact", payload, HandleShopRedact(sessions, payload))

NextHandlers == CallCustomerDataRequest \/ CallCustomerRedact \/ CallShopRedact

SpecHandlers == InitHandlers /\ [][NextHandlers]_vars

-----------------------------------------------------------------------------
(* Requests *)

RouteDataRequest == "customers/data_request"
RouteCustomerRedact == "customers/redact"
RouteShopRedact == "shop/redact"
RouteShopRedactInline == "shop/redact (inline verifier)"
RouteUninstalled == "app/uninstalled"
RouteUninstalledPlatform == "app/uninstalled (platform auth only)"
RouteScopesUpdate == "app/scopes_update"

\* Routes that verify with WebhookSecurity.verifyWebhookRequest
SecurityRoutes ==
    {RouteCustomerRedact, RouteShopRedact, RouteUninstalled, RouteScopesUpdate}
\* Routes that answer 405 to a method other than POST, parse the body
\* themselves and call a compliance handler
ComplianceRoutes ==
    {RouteDataRequest, RouteCustomerRedact, RouteShopRedact, RouteShopRedactInline}
\* Routes that hand the request to authenticate.webhook
PlatformRoutes == {RouteUninstalled, RouteUninstalledPlatform, RouteScopesUpdate}
Routes == ComplianceRoutes \cup PlatformRoutes

NoPayload == [shop_domain |-> "", hasCustomer |-> FALSE, customerId |-> 0]

\* JSON.parse(body) as ComplianceWebhookPayload.  A body of the model is
\* '{' shop [customer id] '}'; any other text is a SyntaxError.
JsonParse(body) ==
    LET shopOk == Len(body) >= 2 /\ body[1] = "{" /\ body[2] \in {"a", "b"}
        shop == IF body[2] = "a" THEN Shops[1] ELSE Shops[2]
    IN  IF shopOk /\ Len(body) = 3 /\ body[3] = "}"
            THEN [ok |-> TRUE,
                  payload |-> [shop_domain |-> shop, hasCustomer |-> FALSE,
                               customerId |-> 0]]
        ELSE IF shopOk /\ Len(body) = 4 /\ body[3] \in {"1", "2"} /\ body[4] = "}"
            THEN [ok |-> TRUE,
                  payload |-> [shop_domain |-> shop, hasCustomer |-> TRUE,
                               customerId |-> IF body[3] = "1" THEN 1 ELSE 2]]
        ELSE [ok |-> FALSE, payload |-> NoPayload]

WellFormedBodies ==
    {<<"{", sh, "}">> : sh \in {"a", "b"}}
    \cup {<<"{", sh, c, "}">> : sh \in {"a", "b"}, c \in {"1", "2"}}
MalformedBodies == {<<"{", "a">>}
RouteBodies == WellFormedBodies \cup MalformedBodies

ShopSecret == "k1"      \* the secret Shopify signs this app's webhooks with
OtherSecret == "k2"     \* any other secret

HeaderForms == {"none", "valid", "prefixed", "wrongkey", "truncated", "hub"}

\* The two signature headers of a request with the given body.
Headers(form, body) ==
    CASE form = "none" -> [shopify |-> Null, hub |-> Null]
      [] form = "valid" -> [shopify |-> Sign(body, ShopSecret), hub |-> Null]
      [] form = "prefixed" ->
            [shopify |-> SignPrefixed(body, ShopSecret), hub |-> Null]
      [] form = "wrongkey" -> [shopify |-> Sign(body, OtherSecret), hub |-> Null]
      [] form = "truncated" ->
            [shopify |-> SubSeq(Sign(body, ShopSecret), 1, 2), hub |-> Null]
      [] form = "hub" -> [shopify |-> Null, hub |-> SignPrefixed(body, ShopSecret)]

Request(route, method, form, body) ==
    [route |-> route, method |-> method, hShopify |-> Headers(form, body).shopify,
     hHub |-> Headers(form, body).hub, body |-> body]

\* A request without body is how a GET arrives.
Requests ==
    {Request(r, "POST", f, b) : r \in Routes, f \in HeaderForms, b \in RouteBodies}
    \cup {Request(r, "GET", "valid", <<>>) : r \in Routes}

NoRequest == Request(RouteDataRequest, "GET", "none", <<>>)

Falsy(str) == str = Null \/ str = <<>>

ExtractHmacSignatureHubFirst(request) ==
    IF ~Falsy(request.hHub) THEN request.hHub
    ELSE IF ~Falsy(request.hShopify) THEN request.hShopify
    ELSE Null

\* WebhookSecurity.extractHmacSignature
ExtractHmacSignature(request) ==
    IF ~Falsy(request.hShopify) THEN request.hShopify
    ELSE IF ~Falsy(request.hHub) THEN request.hHub
    ELSE Null

\* WebhookSecurity.verifyWebhookRequest(request, body) with no secret given
VerifyWebhookRequest(request, body, envSecret) ==
    VerifyHmacSignature(body, ExtractHmacSignature(request), "", envSecret)

\* String.prototype.replace(pattern, '') with a string pattern: the first
\* occurrence, wherever it is, is removed.
ReplaceFirst(str, pattern) ==
    LET n == Len(pattern)
        at == {i \in 1..(Len(str) - n + 1) : SubSeq(str, i, i + n - 1) = pattern}
    IN  IF at = {} THEN str
        ELSE LET i == CHOOSE j \in at : \A k \in at : j <= k
             IN  SubSeq(str, 1, i - 1) \o SubSeq(str, i + n, Len(str))

\* verifyShopifyWebhook(body, signature) of the routes that carry their
\* own verifier: the base64 texts are compared as they are, and
\* timingSafeEqual throws when their lengths differ.
VerifyShopifyWebhook(body, signature, envSecret) ==
    IF Falsy(signature) THEN [threw |-> FALSE, valid |-> FALSE]
    ELSE IF envSecret = "" THEN [threw |-> FALSE, valid |-> FALSE]
    ELSE LET cleanSignature == ReplaceFirst(signature, Sha256Prefix)
             computedSignature == ComputedSignature(body, envSecret)
             cmp == TimingSafeEqual(cleanSignature, computedSignature)
         IN  [threw |-> cmp.threw, valid |-> cmp.equal]

\* What a route's own signature check gives on a request: whether it
\* threw and whether it found the signature valid.
RouteVerification(request, body, envSecret) ==
    IF request.route \in SecurityRoutes
        THEN [threw |-> FALSE,
              valid |-> VerifyWebhookRequest(request, body, envSecret).valid]
    ELSE IF request.route = RouteDataRequest /\ Falsy(request.hShopify)
        THEN [threw |-> FALSE, valid |-> FALSE]
    ELSE VerifyShopifyWebhook(body,
                              IF request.hShopify = Null THEN <<>>
                              ELSE request.hShopify,
                              envSecret)

UnauthorizedIfThrew(verification) == verification.threw

\* if (!verification.valid) return 401, if (!isValid) return 401
Unauthorized(verification) == ~verification.valid

-----------------------------------------------------------------------------
(* authenticate.webhook of the platform library *)

NoSession == 0
NewScope == "read_orders,write_orders"   \* payload.current.toString()

\* authenticate.webhook(request): the library checks the method and the
\* x-shopify-hmac-sha256 header against the body under the API secret,
\* parses the body, and loads the offline session of the shop.  It
\* throws a Response when a check fails.
AuthenticateWebhook(request, body, table, envSecret) ==
    LET parsed == JsonParse(body)
        shop == parsed.payload.shop_domain
        Thrown(status) ==
            [threw |-> TRUE, status |-> status, shop |-> "", session |-> NoSession]
    IN  IF request.method # "POST" THEN Thrown(405)
        ELSE IF envSecret = "" \/ Falsy(request.hShopify)
                \/ request.hShopify # ComputedSignature(body, envSecret)
            THEN Thrown(401)
        ELSE IF ~parsed.ok THEN Thrown(400)
        ELSE [threw |-> FALSE, status |-> 200, shop |-> shop,
              session |-> IF \E r \in table : r.id = OfflineId(shop)
                            THEN OfflineId(shop) ELSE NoSession]

-----------------------------------------------------------------------------
(* The responses of the routes *)

\* The fields of a JSON response body the routes set; a field left out
\* is NoError, and new Response() has none of them.
NoBody == [success |-> FALSE, error |-> NoError, message |-> NoError]

\* json({ error })
ErrorBody(error) == [success |-> FALSE, error |-> error, message |-> NoError]

\* json({ error: "Internal server error", message: error.message })
InternalErrorBody(message) ==
    [success |-> FALSE, error |-> "Internal server error", message |-> message]

\* json({ success: true, message }) and json({ success: true, data })
SuccessBody(route) ==
    [success |-> route \in ComplianceRoutes,
     error |-> NoError,
     message |-> IF route = RouteCustomerRedact
                    THEN "Customer data redacted successfully"
                 ELSE IF route \in {RouteShopRedact, RouteShopRedactInline}
                    THEN "Shop data redacted successfully"
                 ELSE NoError]

\* The body of the 401 a route answers to a request it does not accept.
UnauthorizedBody(request) ==
    IF request.route = RouteDataRequest
        THEN IF Falsy(request.hShopify) THEN ErrorBody("Missing signature")
             ELSE ErrorBody("Invalid signature")
    ELSE ErrorBody("Unauthorized")

\* error.message of the errors the platform throws in the routes
RangeErrorMessage == "Input buffers must have the same byte length"
SyntaxErrorMessage == "Unexpected end of JSON input"

CatchResponseAll500(kind, message) ==
    [status |-> 500, body |-> InternalErrorBody(message)]

CatchResponseBadRequest(kind, message) ==
    IF kind = "SyntaxError"
        THEN [status |-> 400, body |-> ErrorBody("Invalid JSON payload")]
    ELSE [status |-> 500, body |-> InternalErrorBody(message)]

\* The catch block of the compliance routes: a SyntaxError is answered
\* 401, any other error 500 with the error's message in the body.
CatchResponse(kind, message) ==
    IF kind = "SyntaxError"
        THEN [status |-> 401, body |-> ErrorBody("Invalid JSON payload")]
    ELSE [status |-> 500, body |-> InternalErrorBody(message)]

\* The catch block of the app/uninstalled and app/scopes_update routes
PlatformCatchResponse == [status |-> 500, body |-> ErrorBody("Internal server error")]

-----------------------------------------------------------------------------
(* ChatWithAdsAPI *)

ApiUrl == "https://api.chatwithads.example"
ApiKey == "key"

\* if (!this.config.apiUrl || !this.config.apiKey) is not taken
NotifyConfigured(e) == e.CHATWITH_ADS_API_URL # "" /\ e.CHATWITH_ADS_API_KEY # ""

\* How the fetch of notifyUninstall settles: a response with ok set, a
\* response without, or a rejection.
FetchOutcomes == {"ok", "not ok", "rejected"}

\* return { success: false, error: 'API not configured' }
NotifyUnconfigured == "failure"

\* What notifyUninstall returns once its fetch has settled: success for
\* an ok response; the error it throws for another response and the
\* rejection of fetch are caught and returned as a failure value.
NotifyUninstall(outcome) == IF outcome = "ok" THEN "success" ELSE "failure"

ResponseStatusFromNotify(notify) == IF notify = "failure" THEN 500 ELSE 200

\* return new Response(), return json({ success: true, ... }, { status:
\* 200 }): the status does not depend on what notifyUninstall returned.
ResponseStatus(notify) == 200

-----------------------------------------------------------------------------
(* The webhook routes: deliveries handled one step at a time *)

Slots == DOMAIN pc

NoLocals ==
    [before |-> {}, body |-> <<>>, valid |-> FALSE, parsed |-> FALSE,
     payload |-> NoPayload, started |-> FALSE, authOk |-> FALSE, shop |-> "",
     session |-> NoSession, count |-> 0, wrote |-> FALSE, fetch |-> "none",
     notify |-> "none"]

Init ==
    /\ env = [SHOPIFY_API_SECRET |-> ShopSecret,
              CHATWITH_ADS_API_URL |-> ApiUrl, CHATWITH_ADS_API_KEY |-> ApiKey]
    /\ sessions \in SessionTables
    /\ connectors = {}
    /\ vin = NoVerifyInput
    /\ vout = NoVerifyResult
    /\ hlog = <<>>
    /\ req = <<NoRequest>>
    /\ pc = <<"idle">>
    /\ loc = <<NoLocals>>
    /\ resp = <<0>>
    /\ rbody = <<NoBody>>
    /\ redeliv = <<0>>

Unused == <<env, connectors, vin, vout, hlog>>

\* The slot answers with the status and is finished.
Answer(p, status, body) ==
    /\ resp' = [resp EXCEPT ![p] = status]
    /\ rbody' = [rbody EXCEPT ![p] = body]
    /\ pc' = [pc EXCEPT ![p] = "done"]

\* One of the requests arrives at a free slot.
DeliverFrom(p, requests) ==
    /\ pc[p] = "idle"
    /\ \E r \in requests : req' = [req EXCEPT ![p] = r]
    /\ pc' = [pc EXCEPT ![p] = "start"]
    /\ loc' = [loc EXCEPT ![p] = [NoLocals EXCEPT !.before = sessions]]
    /\ resp' = [resp EXCEPT ![p] = 0]
    /\ rbody' = [rbody EXCEPT ![p] = NoBody]
    /\ redeliv' = [redeliv EXCEPT ![p] = 0]
    /\ UNCHANGED <<sessions>>
    /\ UNCHANGED Unused

\* A webhook arrives at a free slot.
Deliver(p) == DeliverFrom(p, Requests)

\* The transport delivers the webhook it delivered last once more.
Redeliver(p) ==
    /\ pc[p] = "done"
    /\ redeliv[p] < MaxRedeliver
    /\ pc' = [pc EXCEPT ![p] = "start"]
    /\ loc' = [loc EXCEPT ![p] = [NoLocals EXCEPT !.before = sessions]]
    /\ resp' = [resp EXCEPT ![p] = 0]
    /\ rbody' = [rbody EXCEPT ![p] = NoBody]
    /\ redeliv' = [redeliv EXCEPT ![p] = redeliv[p] + 1]
    /\ UNCHANGED <<sessions, req>>
    /\ UNCHANGED Unused

\* The response has been sent and the transport delivers this webhook no
\* more: the slot is free again.
Release(p) ==
    /\ pc[p] = "done"
    /\ req' = [req EXCEPT ![p] = NoRequest]
    /\ pc' = [pc EXCEPT ![p] = "idle"]
    /\ loc' = [loc EXCEPT ![p] = NoLocals]
    /\ resp' = [resp EXCEPT ![p] = 0]
    /\ rbody' = [rbody EXCEPT ![p] = NoBody]
    /\ redeliv' = [redeliv EXCEPT ![p] = 0]
    /\ UNCHANGED <<sessions>>
    /\ UNCHANGED Unused

MethodNotAllowedDataRequestOnly(request) ==
    request.route = RouteDataRequest /\ request.method # "POST"

\* if (request.method !== "POST"), the first statement of every compliance
\* route's action; the routes of authenticate.webhook have no such test.
MethodNotAllowed(request) ==
    request.route \in ComplianceRoutes /\ request.method # "POST"

\* The method check of the compliance routes, then request.text().
Start(p) ==
    /\ pc[p] = "start"
    /\ IF MethodNotAllowed(req[p])
          THEN Answer(p, 405, ErrorBody("Method not allowed")) /\ UNCHANGED loc
       ELSE /\ loc' = [loc EXCEPT ![p].body = req[p].body]
            /\ pc' = [pc EXCEPT ![p] =
                        IF req[p].route = RouteUninstalledPlatform
                            THEN "auth" ELSE "verify"]
            /\ UNCHANGED <<resp, rbody>>
    /\ UNCHANGED <<sessions, req, redeliv>>
    /\ UNCHANGED Unused

\* The route's signature check on the body it read.
Verify(p) ==
    /\ pc[p] = "verify"
    /\ LET verification ==
               RouteVerification(req[p], loc[p].body, env.SHOPIFY_API_SECRET)
           caught == CatchResponse("RangeError", RangeErrorMessage)
       IN  IF verification.threw
              THEN Answer(p, caught.status, caught.body) /\ UNCHANGED loc
           ELSE IF Unauthorized(verification)
              THEN Answer(p, 401, UnauthorizedBody(req[p])) /\ UNCHANGED loc
           ELSE /\ loc' = [loc EXCEPT ![p].valid = TRUE]
                /\ pc' = [pc EXCEPT ![p] =
                            IF req[p].route \in PlatformRoutes
                                THEN "auth" ELSE "parse"]
                /\ UNCHANGED <<resp, rbody>>
    /\ UNCHANGED <<sessions, req, redeliv>>
    /\ UNCHANGED Unused

\* JSON.parse(body); a SyntaxError is answered 401.
Parse(p) ==
    /\ pc[p] = "parse"
    /\ LET parsed == JsonParse(loc[p].body)
           caught == CatchResponse("SyntaxError", SyntaxErrorMessage)
       IN  IF ~parsed.ok
              THEN Answer(p, caught.status, caught.body) /\ UNCHANGED loc
           ELSE /\ loc' = [loc EXCEPT ![p].parsed = TRUE,
                                      ![p].payload = parsed.payload]
                /\ pc' = [pc EXCEPT ![p] = "handle"]
                /\ UNCHANGED <<resp, rbody>>
    /\ UNCHANGED <<sessions, req, redeliv>>
    /\ UNCHANGED Unused

HandleFromSnapshot(p) ==
    /\ pc[p] = "handle"
    /\ LET payload == loc[p].payload
           out == CASE req[p].route = RouteDataRequest ->
                        HandleCustomerDataRequest(loc[p].before, payload)
                    [] req[p].route = RouteCustomerRedact ->
                        HandleCustomerRedact(loc[p].before, payload)
                    [] OTHER -> HandleShopRedact(loc[p].before, payload)
       IN  /\ sessions' = out.table
           /\ loc' = [loc EXCEPT ![p].started = TRUE,
                                 ![p].count = out.count,
                                 ![p].wrote = (out.queried
                                               /\ req[p].route # RouteDataRequest)]
           /\ IF out.threw
                 THEN LET caught == CatchResponse("Error", out.error)
                      IN  Answer(p, caught.status, caught.body)
              ELSE pc' = [pc EXCEPT ![p] = "respond"] /\ UNCHANGED <<resp, rbody>>
    /\ UNCHANGED <<req, redeliv>>
    /\ UNCHANGED Unused

\* The compliance handler of the route; an exception is answered 500.
Handle(p) ==
    /\ pc[p] = "handle"
    /\ LET payload == loc[p].payload
           out == CASE req[p].route = RouteDataRequest ->
                        HandleCustomerDataRequest(sessions, payload)
                    [] req[p].route = RouteCustomerRedact ->
                        HandleCustomerRedact(sessions, payload)
                    [] OTHER -> HandleShopRedact(sessions, payload)
       IN  /\ sessions' = out.table
           /\ loc' = [loc EXCEPT ![p].started = TRUE,
                                 ![p].count = out.count,
                                 ![p].wrote = (out.queried
                                               /\ req[p].route # RouteDataRequest)]
           /\ IF out.threw
                 THEN LET caught == CatchResponse("Error", out.error)
                      IN  Answer(p, caught.status, caught.body)
              ELSE pc' = [pc EXCEPT ![p] = "respond"] /\ UNCHANGED <<resp, rbody>>
    /\ UNCHANGED <<req, redeliv>>
    /\ UNCHANGED Unused

\* authenticate.webhook(request).  What it throws is caught and answered
\* 500 by the routes with a try block, and is the response otherwise.
Authenticate(p) ==
    /\ pc[p] = "auth"
    /\ LET auth == AuthenticateWebhook(req[p], loc[p].body, sessions,
                                       env.SHOPIFY_API_SECRET)
       IN  IF auth.threw
              THEN /\ IF req[p].route = RouteUninstalledPlatform
                         THEN Answer(p, auth.status, NoBody)
                      ELSE Answer(p, PlatformCatchResponse.status,
                                  PlatformCatchResponse.body)
                   /\ UNCHANGED loc
           ELSE /\ loc' = [loc EXCEPT ![p].authOk = TRUE,
                                      ![p].shop = auth.shop,
                                      ![p].session = auth.session]
                /\ pc' = [pc EXCEPT ![p] =
                            IF auth.session # NoSession THEN "db"
                            ELSE IF req[p].route = RouteScopesUpdate
                                THEN "respond" ELSE "notify"]
                /\ UNCHANGED <<resp, rbody>>
    /\ UNCHANGED <<sessions, req, redeliv>>
    /\ UNCHANGED Unused

\* where: { shop }
UninstallWhere(shop) == [shop |-> shop, userId |-> AnyValue]

\* if (session): prisma.session.deleteMany({ where: { shop } }) of the
\* uninstall routes, prisma.session.update({ where: { id: session.id } })
\* of the scopes route.  update throws when no row has the id.
DbWrite(p) ==
    /\ pc[p] = "db"
    /\ IF req[p].route = RouteScopesUpdate
          THEN IF \E r \in sessions : r.id = loc[p].session
                  THEN /\ sessions' =
                            {IF r.id = loc[p].session
                                THEN [r EXCEPT !.scope = NewScope] ELSE r :
                             r \in sessions}
                       /\ loc' = [loc EXCEPT ![p].wrote = TRUE]
                       /\ pc' = [pc EXCEPT ![p] = "respond"]
                       /\ UNCHANGED <<resp, rbody>>
               ELSE /\ Answer(p, PlatformCatchResponse.status,
                                  PlatformCatchResponse.body)
                    /\ UNCHANGED <<sessions, loc>>
       ELSE LET deleted == DeleteMany(sessions, UninstallWhere(loc[p].shop))
            IN  /\ sessions' = deleted.table
                /\ loc' = [loc EXCEPT ![p].wrote = TRUE, ![p].count = deleted.count]
                /\ pc' = [pc EXCEPT ![p] = "notify"]
                /\ UNCHANGED <<resp, rbody>>
    /\ UNCHANGED <<req, redeliv>>
    /\ UNCHANGED Unused

\* chatWithAdsAPI.notifyUninstall(shop) is called: without an API URL or
\* key it returns a failure value at once, otherwise it sends its request
\* and the action waits for it.
NotifyCall(p) ==
    /\ pc[p] = "notify"
    /\ IF NotifyConfigured(env)
          THEN /\ pc' = [pc EXCEPT ![p] = "await"]
               /\ UNCHANGED loc
       ELSE /\ loc' = [loc EXCEPT ![p].notify = NotifyUnconfigured]
            /\ pc' = [pc EXCEPT ![p] = "respond"]
    /\ UNCHANGED <<sessions, req, resp, rbody, redeliv>>
    /\ UNCHANGED Unused

\* The request of notifyUninstall settles, and notifyUninstall returns
\* to the action that awaits it.
NotifySettle(p) ==
    /\ pc[p] = "await"
    /\ \E outcome \in FetchOutcomes :
            loc' = [loc EXCEPT ![p].fetch = outcome,
                               ![p].notify = NotifyUninstall(outcome)]
    /\ pc' = [pc EXCEPT ![p] = "respond"]
    /\ UNCHANGED <<sessions, req, resp, rbody, redeliv>>
    /\ UNCHANGED Unused

\* return json({ success: true, ... }, { status: 200 }), return new Response()
Respond(p) ==
    /\ pc[p] = "respond"
    /\ Answer(p, ResponseStatus(loc[p].notify), SuccessBody(req[p].route))
    /\ UNCHANGED <<sessions, req, loc, redeliv>>
    /\ UNCHANGED Unused

DeliverStep == \E p \in Slots : Deliver(p)
RedeliverStep == \E p \in Slots : Redeliver(p)
ReleaseStep == \E p \in Slots : Release(p)
StartStep == \E p \in Slots : Start(p)
VerifyStep == \E p \in Slots : Verify(p)
ParseStep == \E p \in Slots : Parse(p)
HandleStep == \E p \in Slots : Handle(p)
AuthenticateStep == \E p \in Slots : Authenticate(p)
DbWriteStep == \E p \in Slots : DbWrite(p)
NotifyCallStep == \E p \in Slots : NotifyCall(p)
NotifySettleStep == \E p \in Slots : NotifySettle(p)
RespondStep == \E p \in Slots : Respond(p)

Next ==
    \/ DeliverStep
    \/ RedeliverStep
    \/ ReleaseStep
    \/ StartStep
    \/ VerifyStep
    \/ ParseStep
    \/ HandleStep
    \/ AuthenticateStep
    \/ DbWriteStep
    \/ NotifyCallStep
    \/ NotifySettleStep
    \/ RespondStep

Spec == Init /\ [][Next]_vars

-----------------------------------------------------------------------------
(* The app/uninstalled routes, with and without a configured ChatWith Ads API *)

UninstallRoutes == {RouteUninstalled, RouteUninstalledPlatform}
UninstallRequests == {r \in Requests : r.route \in UninstallRoutes}

InitUninstall ==
    /\ env \in [SHOPIFY_API_SECRET : {ShopSecret},
                 CHATWITH_ADS_API_URL : {"", ApiUrl},
                 CHATWITH_ADS_API_KEY : {"", ApiKey}]
    /\ sessions \in SessionTables
    /\ connectors = {}
    /\ vin = NoVerifyInput
    /\ vout = NoVerifyResult
    /\ hlog = <<>>
    /\ req = <<NoRequest>>
    /\ pc = <<"idle">>
    /\ loc = <<NoLocals>>
    /\ resp = <<0>>
    /\ rbody = <<NoBody>>
    /\ redeliv = <<0>>

DeliverUninstallStep == \E p \in Slots : DeliverFrom(p, UninstallRequests)

NextUninstall ==
    \/ DeliverUninstallStep
    \/ RedeliverStep
    \/ ReleaseStep
    \/ StartStep
    \/ VerifyStep
    \/ AuthenticateStep
    \/ DbWriteStep
    \/ NotifyCallStep
    \/ NotifySettleStep
    \/ RespondStep

\* The steps the server takes by itself are taken: reading the body, the
\* signature check, authenticate.webhook, the query on the local
\* database, the call of notifyUninstall and the return of the response
\* each run once the step before them has finished.  Nothing makes the
\* transport deliver, nor the external service answer the request of
\* notifyUninstall, which is sent without a timeout.
ServerStepOf(p) ==
    \/ Start(p)
    \/ Verify(p)
    \/ Authenticate(p)
    \/ DbWrite(p)
    \/ NotifyCall(p)
    \/ Respond(p)

ServerStep == \E p \in Slots : ServerStepOf(p)

ServerFairness == WF_vars(ServerStep)

SpecUninstall == InitUninstall /\ [][NextUninstall]_vars /\ ServerFairness

-----------------------------------------------------------------------------
(* Calls of verifyHmacSignature on chosen inputs, as WebhookTester makes them *)

\* The bodies that differ from body in exactly one character.
Mutations(body) ==
    {[body EXCEPT ![i] = c] : i \in 1..Len(body), c \in BodyCharSet} \ {body}

SigForms == {"null", "empty", "plain", "prefixed", "prefixonly",
             "truncated", "junk", "text"}

\* 'invalid-signature', the invalid signature of testHMACVerification
InvalidText == <<"i","n","v","a","l","i","d","-",
                 "s","i","g","n","a","t","u","r","e">>

\* The signature string of a given form made from a signed body and secret.
MakeSignature(form, body, secret) ==
    CASE form = "null" -> Null
      [] form = "empty" -> <<>>
      [] form = "plain" -> Sign(body, secret)
      [] form = "prefixed" -> SignPrefixed(body, secret)
      [] form = "prefixonly" -> Sha256Prefix
      [] form = "truncated" -> SubSeq(Sign(body, secret), 1, 2)
      [] form = "junk" -> <<"!">> \o Sign(body, secret)
      [] form = "text" -> Sha256Prefix \o InvalidText

\* The inputs of a call: a body and a secret, and the body, secret and form
\* of the signature, signed over the body itself or a body one character
\* off it.
VerifyInputs(body) ==
    {[body |-> body, secret |-> s, sigBody |-> sb, sigSecret |-> ss, form |-> f] :
        s \in SecretSet, sb \in {body} \cup Mutations(body), ss \in SecretSet,
        f \in SigForms}

InitVerify ==
    /\ env \in [SHOPIFY_API_SECRET : EnvSecrets]
    /\ \E body \in SeqsUpTo(BodyCharSet, MaxLen) : vin \in VerifyInputs(body)
    /\ vout = NoVerifyResult
    /\ sessions = {}
    /\ connectors = {}
    /\ hlog = <<>>
    /\ req = NoSlots
    /\ pc = NoSlots
    /\ loc = NoSlots
    /\ resp = NoSlots
    /\ rbody = NoSlots
    /\ redeliv = NoSlots

\* One call verifyHmacSignature(body, signature, secret).
ApplyVerify ==
    /\ ~vout.done
    /\ vout' = [done |-> TRUE] @@
                VerifyHmacSignature(vin.body,
                                    MakeSignature(vin.form, vin.sigBody, vin.sigSecret),
                                    vin.secret, env.SHOPIFY_API_SECRET)
    /\ UNCHANGED <<env, sessions, connectors, vin, hlog, req, pc, loc, resp, rbody,
                   redeliv>>

NextVerify == ApplyVerify

SpecVerify == InitVerify /\ [][NextVerify]_vars

\* The call made was verify(B, sign(B, S), S), the signature with or
\* without the 'sha256=' prefix.
SignedCall ==
    /\ vout.done
    /\ vin.form \in {"plain", "prefixed"}
    /\ vin.sigBody = vin.body
    /\ vin.sigSecret = vin.secret

\* C2 as stated: for every body B and every secret S,
\* verifyHmacSignature(B, sign(B,S), S) is valid, with or without the
\* 'sha256=' prefix on the signature.
C2_Original == SignedCall => vout.valid

\* C2 amended: for every body B and every non-empty secret S,
\* verifyHmacSignature(B, sign(B,S), S) returns valid=true with no error,
\* and so the same result with and without the 'sha256=' prefix.
C2_SignedBodyVerifies ==
    (SignedCall /\ vin.secret # "") => (vout.valid /\ vout.error = NoError)

C2_Witness ==
    /\ SignedCall
    /\ vin.secret # ""
    /\ vin.form = "prefixed"
    /\ Len(vin.body) = MaxLen
    /\ vout.valid

\* The call made was verify(B', sign(B, S), S) with B' one character off B.
MutatedCall ==
    /\ vout.done
    /\ vin.form \in {"plain", "prefixed"}
    /\ vin.sigBody \in Mutations(vin.body)
    /\ vin.sigSecret = vin.secret

\* C3: for every body B, secret S and body B' that differs from B in a
\* single byte, verifyHmacSignature(B', sign(B,S), S) returns valid=false.
C3_MutatedBodyRejected == MutatedCall => ~vout.valid

C3_Witness ==
    /\ MutatedCall
    /\ vin.secret # ""
    /\ vout.error = "Invalid HMAC signature"

\* The signature, the secret in force and the two digests of the call made.
CallSignature == MakeSignature(vin.form, vin.sigBody, vin.sigSecret)
CallSecret == IF vin.secret # "" THEN vin.secret ELSE env.SHOPIFY_API_SECRET
SignaturePresent == CallSignature # Null /\ CallSignature # <<>>
ReceivedDigest == Base64Decode(RemovePrefix(CallSignature))
ExpectedDigest == HmacDigest(vin.body, CallSecret)

\* The call reached the comparison with a received digest as long as the
\* computed one, or not as long: timingSafeEqual throws on the latter.
WrongLengthCall ==
    /\ vout.done
    /\ SignaturePresent
    /\ CallSecret # ""
    /\ Len(ReceivedDigest) # DigestLen

\* C11: verifyHmacSignature is total: for every body, signature string
\* (wrong length, non-base64, empty after prefix removal) and secret the
\* call returns a result and raises nothing, and the exception the
\* comparison throws inside it comes back as valid=false.
C11_VerifyTotal ==
    vout.done =>
        /\ ~vout.raised
        /\ vout.valid \in BOOLEAN
        /\ WrongLengthCall => (~vout.valid /\ vout.error = RangeErrorResult)

C11_Witness ==
    /\ WrongLengthCall
    /\ vin.form = "prefixonly"
    /\ ReceivedDigest = <<>>
    /\ ~vout.raised
    /\ ~vout.valid

\* A call with a signature and a secret whose received digest is not the
\* digest computed for the body.
MismatchCall ==
    /\ vout.done
    /\ SignaturePresent
    /\ CallSecret # ""
    /\ ReceivedDigest # ExpectedDigest

\* C12 as stated: whenever a signature is present, a secret is configured
\* and the received digest differs from the computed one, also in its
\* decoded length, the result is valid=false with error exactly
\* "Invalid HMAC signature".
C12_Original ==
    MismatchCall => (~vout.valid /\ vout.error = "Invalid HMAC signature")

\* C12 amended: such a call returns valid=false; the error is exactly
\* "Invalid HMAC signature" when the received digest has the length of the
\* computed one, and the caught RangeError's text when it has another length.
C12_MismatchRejected ==
    MismatchCall =>
        /\ ~vout.valid
        /\ vout.error = IF Len(ReceivedDigest) = DigestLen
                           THEN "Invalid HMAC signature"
                           ELSE RangeErrorResult

C12_Witness ==
    /\ MismatchCall
    /\ vin.form = "plain"
    /\ vin.sigBody = vin.body
    /\ vin.sigSecret # CallSecret
    /\ Len(ReceivedDigest) = DigestLen
    /\ vout.error = "Invalid HMAC signature"

\* C13: for every body and every secret argument, present or absent, a
\* null or empty signature gives valid=false with the missing-signature
\* error, also when no secret is configured at all.
C13_MissingSignatureFirst ==
    (vout.done /\ ~SignaturePresent) =>
        (~vout.valid /\ vout.error = "Missing HMAC signature header")

C13_Witness ==
    /\ vout.done
    /\ vin.form = "empty"
    /\ CallSecret = ""
    /\ vin.body # <<>>
    /\ vout.error = "Missing HMAC signature header"

\* C14: with a signature present and neither the secret argument nor
\* SHOPIFY_API_SECRET set, the result is valid=false with the
\* missing-secret error, and no digest was computed.
C14_MissingSecret ==
    (vout.done /\ SignaturePresent /\ CallSecret = "") =>
        /\ ~vout.valid
        /\ vout.error = "SHOPIFY_API_SECRET environment variable not set"
        /\ vout.digest = NoDigest

C14_Witness ==
    /\ vout.done
    /\ vin.form = "prefixed"
    /\ vin.sigBody = vin.body
    /\ vin.secret = ""
    /\ env.SHOPIFY_API_SECRET = ""
    /\ vout.digest = NoDigest
    /\ ~vout.valid

-----------------------------------------------------------------------------
(* Calls of verifyWebhookRequest on requests with any pair of signature headers *)

\* What request.headers.get gives for a signature header of a request with
\* the body: null for a header that is absent, the empty string for one
\* sent without a value, or a signature.
HeaderValues(body) ==
    {Null, <<>>, Sign(body, ShopSecret), SignPrefixed(body, ShopSecret),
     Sign(body, OtherSecret), SubSeq(Sign(body, ShopSecret), 1, 2)}

ExtractRequests(body) ==
    {[route |-> RouteCustomerRedact, method |-> "POST", hShopify |-> h1,
      hHub |-> h2, body |-> body] :
        h1 \in HeaderValues(body), h2 \in HeaderValues(body)}

InitExtract ==
    /\ env = [SHOPIFY_API_SECRET |-> ShopSecret]
    /\ \E body \in SeqsUpTo(BodyCharSet, MaxLen) : vin \in ExtractRequests(body)
    /\ vout = NoVerifyResult
    /\ sessions = {}
    /\ connectors = {}
    /\ hlog = <<>>
    /\ req = NoSlots
    /\ pc = NoSlots
    /\ loc = NoSlots
    /\ resp = NoSlots
    /\ rbody = NoSlots
    /\ redeliv = NoSlots

\* One call verifyWebhookRequest(request, body): the signature it
\* extracts from the request and the verification of the body under it.
ApplyExtract ==
    /\ ~vout.done
    /\ vout' = [done |-> TRUE, signature |-> ExtractHmacSignature(vin)] @@
                VerifyWebhookRequest(vin, vin.body, env.SHOPIFY_API_SECRET)
    /\ UNCHANGED <<env, sessions, connectors, vin, hlog, req, pc, loc, resp, rbody,
                   redeliv>>

NextExtract == ApplyExtract

SpecExtract == InitExtract /\ [][NextExtract]_vars

\* C15: extractHmacSignature returns the value of x-shopify-hmac-sha256
\* when that header is present and not empty, otherwise the value of
\* x-hub-signature-256 when present and not empty, otherwise null; with
\* both headers present the first one wins.
C15_ExtractFirstMatch ==
    vout.done =>
        vout.signature =
            IF vin.hShopify # Null /\ vin.hShopify # <<>> THEN vin.hShopify
            ELSE IF vin.hHub # Null /\ vin.hHub # <<>> THEN vin.hHub
            ELSE Null

C15_Witness ==
    /\ vout.done
    /\ vin.hShopify = Sign(vin.body, OtherSecret)
    /\ vin.hHub = SignPrefixed(vin.body, ShopSecret)
    /\ vout.signature = vin.hShopify
    /\ ~vout.valid

-----------------------------------------------------------------------------
(* Properties of the compliance handlers *)

Calls == 1..Len(hlog)
MatchingRows(table, payload) ==
    {r \in table : r.shop = payload.shop_domain
                   /\ r.userId = NumberToString(payload.customerId)}

\* Two handleCustomerRedact calls in a row with the same payload, a
\* customer in it.
RedactTwice(i) ==
    /\ i + 1 \in Calls
    /\ hlog[i].op = "customers/redact"
    /\ hlog[i + 1].op = "customers/redact"
    /\ hlog[i].payload = hlog[i + 1].payload
    /\ hlog[i].payload.hasCustomer

\* C6: handleCustomerRedact called twice in a row with the same payload
\* deletes the N matching sessions on the first call and 0 on the second;
\* the second call raises no error and leaves the table as the first left it.
C6_RedactTwice ==
    \A i \in Calls : RedactTwice(i) =>
        /\ hlog[i].count = Cardinality(MatchingRows(hlog[i].before, hlog[i].payload))
        /\ hlog[i].after = hlog[i].before \ MatchingRows(hlog[i].before, hlog[i].payload)
        /\ hlog[i + 1].count = 0
        /\ ~hlog[i + 1].threw
        /\ hlog[i + 1].after = hlog[i].after

C6_Witness ==
    \E i \in Calls :
        /\ RedactTwice(i)
        /\ hlog[i].count = 2
        /\ hlog[i].after # {}
        /\ hlog[i + 1].count = 0

\* C7: after handleShopRedact for shop s no row of shop s remains whatever
\* its user id, rows of other shops are unchanged, and a second call with
\* the same payload deletes nothing and raises no error.
C7_ShopRedact ==
    \A i \in Calls : hlog[i].op = "shop/redact" =>
        /\ ~hlog[i].threw
        /\ hlog[i].after =
                {r \in hlog[i].before : r.shop # hlog[i].payload.shop_domain}
        /\ (i + 1 \in Calls /\ hlog[i + 1].op = "shop/redact"
                /\ hlog[i + 1].payload = hlog[i].payload)
            => (hlog[i + 1].count = 0 /\ ~hlog[i + 1].threw
                /\ hlog[i + 1].after = hlog[i].after)

C7_Witness ==
    \E i \in Calls :
        /\ i + 1 \in Calls
        /\ hlog[i].op = "shop/redact"
        /\ hlog[i + 1].op = "shop/redact"
        /\ hlog[i + 1].payload = hlog[i].payload
        /\ \E r1, r2 \in hlog[i].before :
                /\ r1.shop = hlog[i].payload.shop_domain
                /\ r2.shop = hlog[i].payload.shop_domain
                /\ r1.userId = NoUser
                /\ r2.userId # NoUser
        /\ hlog[i].after # {}

\* The step is a call of handleCustomerDataRequest.
DataRequestStep ==
    /\ Len(hlog') = Len(hlog) + 1
    /\ hlog'[Len(hlog')].op = "customers/data_request"

\* C8: handleCustomerDataRequest is read-only: the session table and the
\* connector-config table are the same before and after every call,
\* whether it returns an export or fails.
C8_DataRequestReadOnly ==
    [][DataRequestStep => (sessions' = sessions /\ connectors' = connectors)]_vars

C8_Witness ==
    \E i, j \in Calls :
        /\ hlog[i].op = "customers/data_request"
        /\ hlog[j].op = "customers/data_request"
        /\ hlog[i].threw
        /\ ~hlog[j].threw
        /\ hlog[j].found # {}
        /\ connectors # {}

\* C9: for a payload with no customer field, handleCustomerDataRequest and
\* handleCustomerRedact each fail with their missing-customer error before
\* any session query or deletion, so the session table is unchanged.
C9_MissingCustomer ==
    \A i \in Calls :
        (hlog[i].op \in {"customers/data_request", "customers/redact"}
            /\ ~hlog[i].payload.hasCustomer) =>
        /\ hlog[i].threw
        /\ hlog[i].error = IF hlog[i].op = "customers/redact"
                              THEN MissingCustomerRedact
                              ELSE MissingCustomerRequest
        /\ ~hlog[i].queried
        /\ hlog[i].count = 0
        /\ hlog[i].after = hlog[i].before

C9_Witness ==
    \E i, j \in Calls :
        /\ hlog[i].op = "customers/data_request"
        /\ hlog[j].op = "customers/redact"
        /\ ~hlog[i].payload.hasCustomer
        /\ ~hlog[j].payload.hasCustomer
        /\ hlog[i].threw
        /\ hlog[j].threw
        /\ \E r \in sessions : r.shop = hlog[j].payload.shop_domain

-----------------------------------------------------------------------------
(* Properties of the webhook routes *)

\* The signature check the route makes passes on the request: its own
\* verifier finds the signature valid or, on the route that has none,
\* authenticate.webhook accepts the request.
RouteVerified(request) ==
    IF request.route = RouteUninstalledPlatform
        THEN ~AuthenticateWebhook(request, request.body, {},
                                  env.SHOPIFY_API_SECRET).threw
    ELSE LET verification ==
                 RouteVerification(request, request.body, env.SHOPIFY_API_SECRET)
         IN  ~verification.threw /\ verification.valid

\* C1: in every webhook route, parsing the body, calling a compliance
\* handler and writing to the session table happen only after the
\* signature verification of the same raw body has returned valid.
C1_VerifiedBeforeEffects ==
    \A p \in Slots :
        (\/ pc[p] \in {"parse", "handle", "db", "notify", "await", "respond"}
         \/ loc[p].parsed
         \/ loc[p].started
         \/ loc[p].wrote
         \/ (pc[p] # "idle" /\ sessions # loc[p].before))
        => (RouteVerified(req[p]) /\ loc[p].body = req[p].body)

C1_Witness ==
    \E p \in Slots :
        /\ req[p].route = RouteShopRedact
        /\ loc[p].parsed
        /\ loc[p].started
        /\ loc[p].wrote
        /\ sessions # loc[p].before
        /\ resp[p] = 200

\* No signature header of the request carries the digest of its body.
NoMatchingSignature(request) ==
    \A h \in {request.hShopify, request.hHub} :
        \/ Falsy(h)
        \/ Base64Decode(RemovePrefix(h))
                # HmacDigest(request.body, env.SHOPIFY_API_SECRET)

\* C4: in every webhook route, a request whose signature header is missing
\* or does not match the body, whatever the signature's length or content,
\* is answered 401 and leaves the session table as it was.
C4_BadSignatureIs401 ==
    \A p \in Slots :
        (pc[p] = "done" /\ req[p].method = "POST" /\ NoMatchingSignature(req[p]))
        => (resp[p] = 401 /\ sessions = loc[p].before)

\* A finished customers/redact delivery with a valid signature, a shop and
\* a customer id.
RedactDelivered(p) ==
    /\ pc[p] = "done"
    /\ req[p].route = RouteCustomerRedact
    /\ req[p].method = "POST"
    /\ RouteVerified(req[p])
    /\ JsonParse(req[p].body).ok
    /\ JsonParse(req[p].body).payload.hasCustomer

\* C5: a POST to customers/redact with a valid signature, shop s and
\* customer id c is answered 200 and leaves the session table equal to the
\* table before minus exactly the rows of shop s with user id c.
C5_RedactRemovesExactlyMatching ==
    \A p \in Slots : RedactDelivered(p) =>
        /\ resp[p] = 200
        /\ sessions = loc[p].before
                \ MatchingRows(loc[p].before, JsonParse(req[p].body).payload)

C5_Witness ==
    \E p \in Slots :
        /\ RedactDelivered(p)
        /\ Cardinality(loc[p].before \ sessions) = MaxOnline
        /\ \E r \in sessions : r.shop = JsonParse(req[p].body).payload.shop_domain
        /\ \E r \in sessions : r.shop # JsonParse(req[p].body).payload.shop_domain

\* A finished app/uninstalled delivery that passed the route's signature
\* check and that authenticate.webhook accepted.
UninstallDelivered(p) ==
    /\ pc[p] = "done"
    /\ req[p].route \in {RouteUninstalled, RouteUninstalledPlatform}
    /\ RouteVerified(req[p])
    /\ ~AuthenticateWebhook(req[p], req[p].body, {}, env.SHOPIFY_API_SECRET).threw

\* C10: every delivery of a verified app/uninstalled webhook is answered
\* with a success status, and a repeated delivery of it leaves the session
\* table as the delivery before it left it.
C10_UninstallRedelivered ==
    \A p \in Slots : UninstallDelivered(p) =>
        /\ resp[p] = 200
        /\ redeliv[p] >= 1 => sessions = loc[p].before

C10_Witness ==
    \E p \in Slots :
        /\ UninstallDelivered(p)
        /\ req[p].route = RouteUninstalled
        /\ redeliv[p] = MaxRedeliver
        /\ sessions # {}
        /\ \E r \in OfflineRows \cup OnlineRows :
                /\ r \notin sessions
                /\ r.shop = JsonParse(req[p].body).payload.shop_domain
        /\ resp[p] = 200

\* A finished POST to a compliance route.
CompliancePost(p) ==
    /\ pc[p] = "done"
    /\ req[p].route \in ComplianceRoutes
    /\ req[p].method = "POST"

\* C16: on every compliance route, a POST with a valid signature whose
\* body is not parseable JSON is answered 401, no compliance handler is
\* called and the session table is unchanged.
C16_UnparseableIs401 ==
    \A p \in Slots :
        (CompliancePost(p) /\ RouteVerified(req[p])
            /\ req[p].body \in MalformedBodies)
        => (resp[p] = 401 /\ ~loc[p].started /\ sessions = loc[p].before)

C16_Witness ==
    \E p \in Slots :
        /\ CompliancePost(p)
        /\ req[p].route = RouteDataRequest
        /\ RouteVerified(req[p])
        /\ req[p].body \in MalformedBodies
        /\ loc[p].valid
        /\ rbody[p] = ErrorBody("Invalid JSON payload")
        /\ sessions # {}

\* C17 as stated: a POST to a compliance webhook endpoint whose body is
\* malformed JSON is answered with status 400.
C17_Original ==
    \A p \in Slots :
        (CompliancePost(p) /\ req[p].body \in MalformedBodies) => resp[p] = 400

\* C17 amended: such a POST is answered 401, by the signature check or by
\* the catch of the parse error, and 500 where the route's own verifier
\* throws on the signature; it is never answered 400.
C17_MalformedJsonStatus ==
    \A p \in Slots :
        (CompliancePost(p) /\ req[p].body \in MalformedBodies) =>
            resp[p] = IF RouteVerification(req[p], req[p].body,
                                           env.SHOPIFY_API_SECRET).threw
                         THEN 500 ELSE 401

C17_Witness ==
    \E p \in Slots :
        /\ CompliancePost(p)
        /\ req[p].route = RouteShopRedact
        /\ req[p].body \in MalformedBodies
        /\ req[p].hHub = SignPrefixed(req[p].body, ShopSecret)
        /\ resp[p] = 401
        /\ rbody[p] = ErrorBody("Invalid JSON payload")

\* The message of the error the route's handler throws on the payload.
HandlerMessages == {MissingCustomerRequest, MissingCustomerRedact}

\* C18: when the compliance handler of a verified request raises an
\* exception that is no JSON parse error, such as on a missing customer,
\* the route answers 500 with a generic message, and the exception's own
\* message is not in the response body.
C18_GenericError ==
    \A p \in Slots :
        (CompliancePost(p) /\ RouteVerified(req[p])
            /\ req[p].route \in {RouteDataRequest, RouteCustomerRedact}
            /\ JsonParse(req[p].body).ok
            /\ ~JsonParse(req[p].body).payload.hasCustomer)
        => /\ resp[p] = 500
           /\ rbody[p].error = "Internal server error"
           /\ rbody[p].message \notin HandlerMessages

\* The session table an accepted app/uninstalled delivery leaves: the
\* rows of the shop are deleted when the shop's offline session was found.
AfterUninstall(before, shop) ==
    IF \E r \in before : r.id = OfflineId(shop)
        THEN {r \in before : r.shop # shop}
    ELSE before

\* C19: for a verified app/uninstalled delivery the status answered and
\* the session table left are the same whether the external uninstall
\* notification succeeds, returns a failure value or has its request
\* fail: the status is 200 and the body carries no error.
C19_NotifyOutcomeNotSurfaced ==
    \A p \in Slots : UninstallDelivered(p) =>
        /\ resp[p] = 200
        /\ rbody[p] = NoBody
        /\ sessions = AfterUninstall(loc[p].before,
                                     JsonParse(req[p].body).payload.shop_domain)

C19_Witness ==
    \E p \in Slots :
        /\ UninstallDelivered(p)
        /\ req[p].route = RouteUninstalled
        /\ loc[p].fetch = "rejected"
        /\ loc[p].notify = "failure"
        /\ sessions # loc[p].before
        /\ resp[p] = 200

\* An app/uninstalled delivery that passed the signature check and
\* authenticate.webhook and has no response yet.
UninstallInProgress(p) ==
    /\ req[p].route \in UninstallRoutes
    /\ loc[p].authOk
    /\ pc[p] \notin {"idle", "done"}

\* C20: every verified app/uninstalled delivery eventually receives its
\* HTTP response, also when the external notification call never
\* completes: sending the response does not wait on the external call.
\* With the server taking every step it can take, that is to say that a
\* delivery in progress always has a step of the server to take,
\* whatever the external service does.
C20_ResponseNotWaiting ==
    \A p \in Slots : UninstallInProgress(p) => ENABLED ServerStepOf(p)

-----------------------------------------------------------------------------
(* ChatWithAdsAPI.syncShopifyData, called as the dashboard loader calls it *)

\* How the fetch of syncShopifyData settles: as that of notifyUninstall,
\* or with an ok response whose body response.json() cannot parse.
SyncFetchOutcomes == FetchOutcomes \cup {"ok, not json"}

\* error.message of what the try block throws on the outcome
SyncErrorMessage(outcome) ==
    CASE outcome = "not ok" -> "API request failed: 500 Internal Server Error"
      [] outcome = "rejected" -> "fetch failed"
      [] outcome = "ok, not json" -> "Unexpected end of JSON input"
      [] OTHER -> NoError

\* A value syncShopifyData returns
SyncResponse(success, error) ==
    [done |-> TRUE, pending |-> FALSE, raised |-> FALSE, success |-> success,
     error |-> error, outcome |-> "none"]

SyncCatchMissing(message) ==
    [done |-> TRUE, pending |-> FALSE, raised |-> TRUE, success |-> FALSE,
     error |-> message, outcome |-> "none"]

\* catch (error) { return { success: false, error: error.message } }
SyncCatch(message) == SyncResponse(FALSE, message)

\* No call made yet, and a call whose fetch is in flight
NoSync == [n |-> 0, shop |-> "", connectorId |-> ""]
NoSyncResult ==
    [done |-> FALSE, pending |-> FALSE, raised |-> FALSE, success |-> FALSE,
     error |-> NoError, outcome |-> "none"]
SyncPending == [NoSyncResult EXCEPT !.pending = TRUE]

ConnectorIds == {"cwads-1", "shop-connector-2"}

InitSync ==
    /\ env \in [SHOPIFY_API_SECRET : {ShopSecret},
                 CHATWITH_ADS_API_URL : {"", ApiUrl},
                 CHATWITH_ADS_API_KEY : {"", ApiKey}]
    /\ vin = NoSync
    /\ vout = NoSyncResult
    /\ hlog = <<>>
    /\ sessions = {}
    /\ connectors = {}
    /\ req = NoSlots
    /\ pc = NoSlots
    /\ loc = NoSlots
    /\ resp = NoSlots
    /\ rbody = NoSlots
    /\ redeliv = NoSlots

\* syncShopifyData(shopDomain, data, connectorId) is called: without an
\* API URL or key it returns a failure value, otherwise it sends its one
\* request, which hlog records with the number of the call.
SyncCall ==
    /\ ~vout.pending
    /\ vin.n < MaxCalls
    /\ \E shop \in ShopSet, id \in ConnectorIds :
            /\ vin' = [n |-> vin.n + 1, shop |-> shop, connectorId |-> id]
            /\ IF NotifyConfigured(env)
                  THEN /\ hlog' = Append(hlog, [call |-> vin.n + 1,
                                                 path |-> "/shopify/sync",
                                                 shopDomain |-> shop,
                                                 connectorId |-> id])
                       /\ vout' = SyncPending
               ELSE /\ vout' = SyncResponse(FALSE, "API not configured")
                    /\ UNCHANGED hlog
    /\ UNCHANGED <<env, sessions, connectors, req, pc, loc, resp, rbody, redeliv>>

\* The fetch settles and syncShopifyData returns.
SyncSettle ==
    /\ vout.pending
    /\ \E outcome \in SyncFetchOutcomes :
            vout' = [(IF outcome = "ok" THEN SyncResponse(TRUE, NoError)
                      ELSE SyncCatch(SyncErrorMessage(outcome)))
                     EXCEPT !.outcome = outcome]
    /\ UNCHANGED <<env, sessions, connectors, vin, hlog, req, pc, loc, resp, rbody,
                   redeliv>>

NextSync == SyncCall \/ SyncSettle

SpecSync == InitSync /\ [][NextSync]_vars

\* The requests the call numbered n has sent.
RequestsOf(n) == {i \in 1..Len(hlog) : hlog[i].call = n}

\* The call returned after a failure: no configuration, or a fetch that
\* did not end in a parsed ok response.
SyncFailed ==
    /\ vout.done
    /\ \/ ~NotifyConfigured(env)
       \/ RequestsOf(vin.n) # {} /\ vout.outcome # "ok"

\* C21: each call of syncShopifyData sends at most one HTTP request; on
\* every failure (network error, non-2xx status, missing configuration)
\* it returns success=false with an error text, raises nothing to its
\* caller and sends the request no second time.
C21_SyncFailsSoftly ==
    /\ \A n \in 1..vin.n : Cardinality(RequestsOf(n)) <= 1
    /\ vout.done => ~vout.raised
    /\ SyncFailed => (~vout.success /\ vout.error # NoError)
    /\ (vout.done /\ ~NotifyConfigured(env)) => RequestsOf(vin.n) = {}

C21_Witness ==
    /\ SyncFailed
    /\ vin.n = MaxCalls
    /\ vout.outcome = "rejected"
    /\ Len(hlog) = MaxCalls
    /\ vout.error = "fetch failed"


-----------------------------------------------------------------------------
(* ComplianceWebhookManager.validateMandatoryWebhooks and                  *)
(* WebhookRegistry.validateWebhookConfiguration                            *)

MaxTopics == 3      \* longest list of registered topics

\* The topics registerAllWebhooks registers
WebhookTopics ==
    {RouteUninstalled, RouteScopesUpdate, RouteDataRequest, RouteCustomerRedact,
     RouteShopRedact}

MANDATORY_WEBHOOKS == <<RouteDataRequest, RouteCustomerRedact, RouteShopRedact>>

WebhookSecrets == {"", "w1"}    \* values of SHOPIFY_WEBHOOK_SECRET

\* Array.prototype.includes
Includes(array, x) == \E i \in 1..Len(array) : array[i] = x

\* WEBHOOK_CONFIGS.get(topic): the secret of the topic's configuration,
\* process.env.SHOPIFY_WEBHOOK_SECRET || '', or Null for a topic without one.
GetWebhookConfig(topic, e) ==
    IF Includes(MANDATORY_WEBHOOKS, topic)
        THEN [found |-> TRUE, secret |-> e.SHOPIFY_WEBHOOK_SECRET]
    ELSE [found |-> FALSE, secret |-> ""]

\* MANDATORY_WEBHOOKS.filter(topic => !registeredTopics.includes(topic))
RECURSIVE NotRegistered(_, _)
NotRegistered(topics, registeredTopics) ==
    IF topics = <<>> THEN <<>>
    ELSE (IF Includes(registeredTopics, Head(topics)) THEN <<>>
          ELSE <<Head(topics)>>)
         \o NotRegistered(Tail(topics), registeredTopics)

ValidateMandatoryWebhooksAnyMissing(registeredTopics) ==
    LET missing == NotRegistered(MANDATORY_WEBHOOKS, registeredTopics)
    IN  [valid |-> Len(missing) < Len(MANDATORY_WEBHOOKS), missing |-> missing]

\* ComplianceWebhookManager.validateMandatoryWebhooks
ValidateMandatoryWebhooks(registeredTopics) ==
    LET missing == NotRegistered(MANDATORY_WEBHOOKS, registeredTopics)
    IN  [valid |-> Len(missing) = 0, missing |-> missing]

\* The issue texts of validateWebhookConfiguration: a text and the topic
\* it ends with.
SecretNotSet == <<"SHOPIFY_WEBHOOK_SECRET environment variable is not set">>
ConfigMissing(topic) == <<"Configuration missing for mandatory webhook: ", topic>>
SecretNotConfigured(topic) == <<"Secret not configured for webhook: ", topic>>

\* webhookConfigs.forEach((config, index) => ...)
RECURSIVE ConfigIssues(_, _)
ConfigIssues(topics, e) ==
    IF topics = <<>> THEN <<>>
    ELSE LET config == GetWebhookConfig(Head(topics), e)
         IN  (IF ~config.found THEN <<ConfigMissing(Head(topics))>>
              ELSE IF config.secret = "" THEN <<SecretNotConfigured(Head(topics))>>
              ELSE <<>>)
             \o ConfigIssues(Tail(topics), e)

ValidateWebhookConfigurationFirstIssue(e) ==
    LET issues == (IF e.SHOPIFY_WEBHOOK_SECRET = "" THEN <<SecretNotSet>> ELSE <<>>)
                  \o ConfigIssues(MANDATORY_WEBHOOKS, e)
    IN  [valid |-> Len(issues) = 0,
         issues |-> IF issues = <<>> THEN <<>> ELSE <<Head(issues)>>]

\* WebhookRegistry.validateWebhookConfiguration
ValidateWebhookConfiguration(e) ==
    LET issues == (IF e.SHOPIFY_WEBHOOK_SECRET = "" THEN <<SecretNotSet>> ELSE <<>>)
                  \o ConfigIssues(MANDATORY_WEBHOOKS, e)
    IN  [valid |-> Len(issues) = 0, issues |-> issues]

NoValidation ==
    [done |-> FALSE, op |-> "none", valid |-> FALSE, missing |-> <<>>,
     issues |-> <<>>]

InitConfig ==
    /\ env \in [SHOPIFY_API_SECRET : EnvSecrets, SHOPIFY_WEBHOOK_SECRET : WebhookSecrets]
    /\ vin \in [registeredTopics : SeqsUpTo(WebhookTopics, MaxTopics)]
    /\ vout = NoValidation
    /\ hlog = <<>>
    /\ sessions = {}
    /\ connectors = {}
    /\ req = NoSlots
    /\ pc = NoSlots
    /\ loc = NoSlots
    /\ resp = NoSlots
    /\ rbody = NoSlots
    /\ redeliv = NoSlots

\* One call validateMandatoryWebhooks(registeredTopics)
ApplyValidateMandatory ==
    /\ ~vout.done
    /\ LET result == ValidateMandatoryWebhooks(vin.registeredTopics)
       IN  vout' = [done |-> TRUE, op |-> "mandatory", valid |-> result.valid,
                    missing |-> result.missing, issues |-> <<>>]
    /\ UNCHANGED <<env, sessions, connectors, vin, hlog, req, pc, loc, resp, rbody,
                   redeliv>>

\* One call validateWebhookConfiguration()
ApplyValidateConfiguration ==
    /\ ~vout.done
    /\ LET result == ValidateWebhookConfiguration(env)
       IN  vout' = [done |-> TRUE, op |-> "configuration", valid |-> result.valid,
                    missing |-> <<>>, issues |-> result.issues]
    /\ UNCHANGED <<env, sessions, connectors, vin, hlog, req, pc, loc, resp, rbody,
                   redeliv>>

NextConfig == ApplyValidateMandatory \/ ApplyValidateConfiguration

SpecConfig == InitConfig /\ [][NextConfig]_vars

\* The elements of a list
Range(list) == {list[i] : i \in 1..Len(list)}
MandatorySet == {RouteDataRequest, RouteCustomerRedact, RouteShopRedact}

\* C22: for every list of registered topics R, the missing list of
\* validateMandatoryWebhooks(R) holds exactly the mandatory topics
\* customers/data_request, customers/redact and shop/redact that are not
\* in R, each once, and valid is true exactly when missing is empty; the
\* other topics of R do not matter.
C22_MissingIsDifference ==
    (vout.done /\ vout.op = "mandatory") =>
        /\ Range(vout.missing) = MandatorySet \ Range(vin.registeredTopics)
        /\ Len(vout.missing) = Cardinality(Range(vout.missing))
        /\ vout.valid <=> (vout.missing = <<>>)

C22_Witness ==
    /\ vout.done
    /\ vout.op = "mandatory"
    /\ vin.registeredTopics = <<RouteCustomerRedact, RouteUninstalled>>
    /\ vout.missing = <<RouteDataRequest, RouteShopRedact>>
    /\ ~vout.valid

\* The mandatory topics whose configuration is missing or has no secret.
Unconfigured ==
    {t \in MandatorySet : \/ ~GetWebhookConfig(t, env).found
                          \/ GetWebhookConfig(t, env).secret = ""}

\* C23: validateWebhookConfiguration makes every check whatever the
\* earlier ones found: issues holds one entry for the missing secret
\* environment value and one for each mandatory topic whose configuration
\* is missing or has no secret, and valid is true exactly when issues is
\* empty.
C23_AllIssuesReported ==
    (vout.done /\ vout.op = "configuration") =>
        /\ Range(vout.issues) =
                (IF env.SHOPIFY_WEBHOOK_SECRET = "" THEN {SecretNotSet} ELSE {})
                \cup {SecretNotConfigured(t) : t \in Unconfigured}
        /\ Len(vout.issues) = Cardinality(Range(vout.issues))
        /\ vout.valid <=> (vout.issues = <<>>)

C23_Witness ==
    /\ vout.done
    /\ vout.op = "configuration"
    /\ env.SHOPIFY_WEBHOOK_SECRET = ""
    /\ Len(vout.issues) = 1 + Len(MANDATORY_WEBHOOKS)
    /\ ~vout.valid

\* verifyHmacSignature called without a secret argument fails with the
\* missing-secret error in the environment.
VerificationLacksSecret ==
    VerifyHmacSignature(<<"{", "}">>, Sign(<<"{", "}">>, ShopSecret), "",
                        env.SHOPIFY_API_SECRET).error
        = "SHOPIFY_API_SECRET environment variable not set"

\* C24: validateWebhookConfiguration returns valid=true only when the
\* secret that verification uses is configured: in every environment in
\* which verifyHmacSignature without a secret argument fails with the
\* missing-secret error, validateWebhookConfiguration reports an issue.
C24_ValidImpliesVerifiable ==
    (vout.done /\ vout.op = "configuration" /\ VerificationLacksSecret) =>
        (~vout.valid /\ vout.issues # <<>>)



-----------------------------------------------------------------------------
(* C25: a compliance route answers a request that is not a POST with 405 *)
(* before it reads the body                                               *)

NonPost(p) ==
    /\ pc[p] # "idle"
    /\ req[p].route \in ComplianceRoutes
    /\ req[p].method # "POST"

\* C25: a request to a compliance route whose method is not POST goes from
\* its arrival straight to the 405 answer {error: "Method not allowed"}: the
\* body is not read, the signature is not verified, nothing is parsed, no
\* handler is called and the session table is as it was on arrival.
C25_NonPostIs405 ==
    \A p \in Slots :
        NonPost(p) =>
            /\ pc[p] \in {"start", "done"}
            /\ loc[p] = [NoLocals EXCEPT !.before = loc[p].before]
            /\ sessions = loc[p].before
            /\ pc[p] = "done" =>
                   /\ resp[p] = 405
                   /\ rbody[p] = ErrorBody("Method not allowed")

C25_Witness ==
    \E p \in Slots :
        /\ NonPost(p)
        /\ pc[p] = "done"
        /\ resp[p] = 405
        /\ req[p].route = RouteShopRedact
        /\ sessions # {}


-----------------------------------------------------------------------------
(* ComplianceWebhookManager.verifyWebhookSignature beside                  *)
(* WebhookSecurity.verifyHmacSignature, as testHMACVerification calls them *)

\* ComplianceWebhookManager.verifyWebhookSignature(body, signature, secret):
\* no try/catch, the prefix removed by a string replace, and the base64
\* texts themselves given to timingSafeEqual.
VerifyWebhookSignature(body, signature, secret) ==
    IF Falsy(signature) \/ secret = ""
        THEN [threw |-> FALSE, valid |-> FALSE]
    ELSE LET cleanSignature == ReplaceFirst(signature, Sha256Prefix)
             computedSignature == ComputedSignature(body, secret)
             cmp == TimingSafeEqual(cleanSignature, computedSignature)
         IN  [threw |-> cmp.threw, valid |-> cmp.equal]

InitLegacy ==
    /\ env = [SHOPIFY_API_SECRET |-> ShopSecret]
    /\ \E body \in SeqsUpTo(BodyCharSet, MaxLen) : vin \in VerifyInputs(body)
    /\ vout = NoVerifyResult
    /\ sessions = {}
    /\ connectors = {}
    /\ hlog = <<>>
    /\ req = NoSlots
    /\ pc = NoSlots
    /\ loc = NoSlots
    /\ resp = NoSlots
    /\ rbody = NoSlots
    /\ redeliv = NoSlots

\* The two calls testHMACVerification makes on one body, signature and
\* secret: the centralized verifier and the legacy one.
ApplyLegacy ==
    /\ ~vout.done
    /\ LET signature == MakeSignature(vin.form, vin.sigBody, vin.sigSecret)
       IN  vout' = [done |-> TRUE,
                    new |-> VerifyHmacSignature(vin.body, signature, vin.secret,
                                                env.SHOPIFY_API_SECRET),
                    old |-> VerifyWebhookSignature(vin.body, signature,
                                                   vin.secret)]
    /\ UNCHANGED <<env, sessions, connectors, vin, hlog, req, pc, loc, resp, rbody,
                   redeliv>>

NextLegacy == ApplyLegacy

SpecLegacy == InitLegacy /\ [][NextLegacy]_vars

\* C26: for every body, signature and non-empty secret, the legacy
\* verifyWebhookSignature returns without throwing, and returns true
\* exactly when the centralized verifyHmacSignature returns valid = true.
C26_LegacyAgrees ==
    (vout.done /\ vin.secret # "") =>
        /\ ~vout.old.threw
        /\ vout.old.valid <=> vout.new.valid


-----------------------------------------------------------------------------
(* Two verified deliveries handled at the same time: each await of an      *)
(* action is a point where the other action may run                        *)

ConcurrentRoutes ==
    {RouteScopesUpdate, RouteUninstalled, RouteCustomerRedact, RouteShopRedact}

\* The bodies a route is sent: a customer redaction names a shop and a
\* customer, the other topics name a shop.
ConcurrentBodies(route) ==
    {b \in WellFormedBodies :
        JsonParse(b).payload.hasCustomer <=> (route = RouteCustomerRedact)}

\* Verified deliveries: POST requests signed with the shop's secret whose
\* body parses.
ConcurrentRequests ==
    UNION {{Request(r, "POST", "valid", b) : b \in ConcurrentBodies(r)} :
                r \in ConcurrentRoutes}

\* The ChatWith Ads API is not configured: notifyUninstall returns at once.
InitConcurrent ==
    /\ env = [SHOPIFY_API_SECRET |-> ShopSecret,
              CHATWITH_ADS_API_URL |-> "", CHATWITH_ADS_API_KEY |-> ""]
    /\ sessions \in SessionTables
    /\ connectors = {}
    /\ vin = NoVerifyInput
    /\ vout = NoVerifyResult
    /\ hlog = <<>>
    /\ req = <<NoRequest, NoRequest>>
    /\ pc = <<"idle", "idle">>
    /\ loc = <<NoLocals, NoLocals>>
    /\ resp = <<0, 0>>
    /\ rbody = <<NoBody, NoBody>>
    /\ redeliv = <<0, 0>>

DeliverConcurrentStep == \E p \in Slots : DeliverFrom(p, ConcurrentRequests)

NextConcurrent ==
    \/ DeliverConcurrentStep
    \/ StartStep
    \/ VerifyStep
    \/ ParseStep
    \/ HandleStep
    \/ AuthenticateStep
    \/ DbWriteStep
    \/ NotifyCallStep
    \/ RespondStep

SpecConcurrent == InitConcurrent /\ [][NextConcurrent]_vars

\* C27: a verified app/scopes_update delivery that authenticate.webhook
\* accepted is answered with a success status, whatever another delivery
\* for the same shop does between its session lookup and its update.
C27_ScopesUpdateSucceeds ==
    \A p \in Slots :
        (req[p].route = RouteScopesUpdate /\ loc[p].authOk /\ pc[p] = "done")
            => resp[p] = 200


\* The topics whose deliveries delete session rows
DeletingRoutes == {RouteCustomerRedact, RouteShopRedact, RouteUninstalled}

\* The shop a delivery names
NamedShop(request) == JsonParse(request.body).payload.shop_domain

\* The session table a delivery leaves when it runs from its arrival to
\* its response with no other delivery in between.
RunAlone(table, request) ==
    LET payload == JsonParse(request.body).payload
    IN  CASE request.route = RouteCustomerRedact ->
                HandleCustomerRedact(table, payload).table
          [] request.route = RouteShopRedact ->
                HandleShopRedact(table, payload).table
          [] request.route = RouteUninstalled ->
                AfterUninstall(table, payload.shop_domain)

\* Both slots hold a deleting delivery.
BothDeleting ==
    \A p \in Slots : pc[p] # "idle" /\ req[p].route \in DeletingRoutes

\* The session table when the first of the two arrived: rows are only
\* deleted, so it is the larger of the tables the two found on arrival.
TableAtFirstArrival ==
    LET p == CHOOSE p \in Slots : \A q \in Slots : loc[q].before \subseteq loc[p].before
    IN  loc[p].before

\* C28: when concurrent customers/redact, shop/redact and app/uninstalled
\* deliveries have all been answered, the session table is the one that
\* running them one after the other in some order leaves; and at every
\* moment the rows of shops none of them names are the rows that were
\* there when the first arrived.
C28_DeletesSerializable ==
    BothDeleting =>
        /\ \A r \in TableAtFirstArrival :
                (\A p \in Slots : r.shop # NamedShop(req[p])) => r \in sessions
        /\ sessions \subseteq TableAtFirstArrival
        /\ (\A p \in Slots : pc[p] = "done") =>
                \E p, q \in Slots :
                    /\ p # q
                    /\ sessions =
                         RunAlone(RunAlone(TableAtFirstArrival, req[p]), req[q])

C28_Witness ==
    /\ BothDeleting
    /\ \A p \in Slots : pc[p] = "done" /\ resp[p] = 200
    /\ \A p \in Slots : loc[p].before = TableAtFirstArrival
    /\ \A p \in Slots : loc[p].wrote /\ loc[p].count > 0
    /\ \E p, q \in Slots : /\ NamedShop(req[p]) = NamedShop(req[q])
                           /\ req[p].route = RouteCustomerRedact
                           /\ req[q].route = RouteUninstalled
    /\ \E r \in sessions : \A p \in Slots : r.shop # NamedShop(req[p])

-----------------------------------------------------------------------------
(* C29: what an answered app/uninstalled delivery leaves of the shop *)

\* C29: once a verified app/uninstalled delivery for a shop has been
\* answered with success, the session table has no row of that shop,
\* whether authenticate.webhook returned a session or not.
C29_NoRowsAfterUninstall ==
    \A p \in Slots :
        UninstallDelivered(p) =>
            \A r \in sessions : r.shop # JsonParse(req[p].body).payload.shop_domain


-----------------------------------------------------------------------------
(* The connector form: the action of app.connector.tsx in its two versions, *)
(* on the ConnectorConfig table.  In this part a connector ID is the        *)
(* sequence of its characters, and a null connectorId column is Null.       *)

\* [a-zA-Z0-9-_]
IdChars ==
    {"a","b","c","d","e","f","g","h","i","j","k","l","m",
     "n","o","p","q","r","s","t","u","v","w","x","y","z",
     "A","B","C","D","E","F","G","H","I","J","K","L","M",
     "N","O","P","Q","R","S","T","U","V","W","X","Y","Z",
     "0","1","2","3","4","5","6","7","8","9","-","_"}

CwadsPrefix == <<"c","w","a","d","s","-">>

\* /^[a-zA-Z0-9-_]{6,64}$/.test(connectorId || "")
ValidGenericId(connectorId) ==
    /\ Len(connectorId) >= 6
    /\ Len(connectorId) <= 64
    /\ \A i \in 1..Len(connectorId) : connectorId[i] \in IdChars

\* (connectorId || "").startsWith("cwads-") && (connectorId || "").length <= 64
ValidCwadsId(connectorId) ==
    StartsWith(connectorId, CwadsPrefix) /\ Len(connectorId) <= 64

\* /^[a-zA-Z0-9-_]{8,32}$/.test(connectorId), the earlier version's format
ValidEarlierId(connectorId) ==
    /\ Len(connectorId) >= 8
    /\ Len(connectorId) <= 32
    /\ \A i \in 1..Len(connectorId) : connectorId[i] \in IdChars

\* The connector IDs the form is submitted with: none, IDs of both formats,
\* IDs one or both versions refuse, and an ID of 65 characters.
FormIds ==
    {<<>>,
     <<"c","w","a","d","s","-","1">>,
     <<"c","w","a","d","s","-","!">>,
     <<"a","b","c","d","e","f">>,
     <<"s","h","o","p","-","c","o","n","n","e","c","t","o","r","-","2">>,
     <<"a","b","c">>,
     <<"b","a","d"," ","i","d"," ","1">>,
     [i \in 1..65 |-> "a"]}

FormActions == {"", "save", "test", "delete"}

\* chatWithAdsAPI.attachConnector(shop, connectorId): the handshake
\* succeeds, is refused, or the call throws.
AttachOutcomes == {"success", "refused", "threw"}

\* prisma.connectorConfig.upsert succeeds or throws.
DbOutcomes == {"ok", "error"}

UpsertCreateOnly(table, shop, connectorId, isActive) ==
    table \cup {[shop |-> shop, connectorId |-> connectorId, isActive |-> isActive]}

\* prisma.connectorConfig.upsert({ where: { shop }, update, create }): shop
\* is the unique key of the table.
Upsert(table, shop, connectorId, isActive) ==
    {r \in table : r.shop # shop}
        \cup {[shop |-> shop, connectorId |-> connectorId, isActive |-> isActive]}

\* What an action answers and the table it leaves.
FormResult(status, message, table) ==
    [status |-> status, message |-> message, table |-> table]

SaveFailed == "Failed to save connector configuration. Please try again."

\* The action of part_002: the handshake with the platform comes before
\* the row is written.
ConnectorAction(table, shop, action, connectorId, attach, connected, db) ==
    IF action = "" THEN FormResult(200, "ok", table)
    ELSE IF action = "save"
        THEN IF connectorId # <<>>
                    /\ ~(ValidGenericId(connectorId) \/ ValidCwadsId(connectorId))
                THEN FormResult(400, "Invalid Connector ID", table)
             ELSE IF connectorId # <<>> /\ attach = "threw"
                THEN FormResult(500, SaveFailed, table)
             ELSE IF connectorId # <<>> /\ attach = "refused"
                THEN FormResult(400, "Invalid Connector ID", table)
             ELSE IF db = "error" THEN FormResult(500, SaveFailed, table)
             ELSE IF connectorId # <<>>
                THEN FormResult(200, "Connection verified and saved.",
                                Upsert(table, shop, connectorId, TRUE))
             ELSE FormResult(200, "Connector configuration cleared.",
                             Upsert(table, shop, Null, FALSE))
    ELSE IF action = "test"
        THEN IF connectorId = <<>>
                THEN FormResult(400, "Please enter a connector ID", table)
             ELSE IF attach = "threw" THEN FormResult(500, SaveFailed, table)
             ELSE IF attach = "refused"
                THEN FormResult(400, "Invalid Connector ID", table)
             ELSE IF ~connected
                THEN FormResult(502, "Platform health check failed", table)
             ELSE FormResult(200, "Connection verified.", table)
    ELSE FormResult(400, "Invalid action", table)

\* The action of app/routes/app.connector.tsx, the earlier version: no
\* handshake, and a test that always succeeds when an ID is given.
ConnectorActionEarlier(table, shop, action, connectorId, db) ==
    IF action = "save"
        THEN IF connectorId # <<>> /\ ~ValidEarlierId(connectorId)
                THEN FormResult(400, "Connector ID must be 8-32 characters", table)
             ELSE IF db = "error" THEN FormResult(500, SaveFailed, table)
             ELSE FormResult(200,
                             IF connectorId # <<>>
                                THEN "Connector ID saved successfully!"
                             ELSE "Connector configuration cleared.",
                             Upsert(table, shop,
                                    IF connectorId # <<>> THEN connectorId ELSE Null,
                                    connectorId # <<>>))
    ELSE IF action = "test"
        THEN IF connectorId = <<>>
                THEN FormResult(400, "Please enter a connector ID", table)
             ELSE FormResult(200, "Connection test successful!", table)
    ELSE FormResult(400, "Invalid action", table)

NoSubmission ==
    [version |-> "none", shop |-> "", action |-> "", connectorId |-> <<>>]

\* The table of a new installation is empty.
InitConnector ==
    /\ env = [SHOPIFY_API_SECRET |-> ShopSecret,
              CHATWITH_ADS_API_URL |-> ApiUrl, CHATWITH_ADS_API_KEY |-> ApiKey]
    /\ sessions = {}
    /\ connectors = {}
    /\ vin = NoSubmission
    /\ vout = NoVerifyResult
    /\ hlog = <<>>
    /\ req = NoSlots
    /\ pc = NoSlots
    /\ loc = NoSlots
    /\ resp = <<0>>
    /\ rbody = <<NoError>>
    /\ redeliv = NoSlots

\* The merchant of a shop submits the form; the action runs to its response.
SubmitConnector ==
    \E shop \in ShopSet, action \in FormActions, connectorId \in FormIds,
       attach \in AttachOutcomes, connected \in BOOLEAN, db \in DbOutcomes :
        LET out == ConnectorAction(connectors, shop, action, connectorId,
                                   attach, connected, db)
        IN  /\ vin' = [version |-> "handshake", shop |-> shop, action |-> action,
                       connectorId |-> connectorId]
            /\ connectors' = out.table
            /\ resp' = <<out.status>>
            /\ rbody' = <<out.message>>
            /\ UNCHANGED <<env, sessions, vout, hlog, req, pc, loc, redeliv>>

SubmitConnectorEarlier ==
    \E shop \in ShopSet, action \in FormActions, connectorId \in FormIds,
       db \in DbOutcomes :
        LET out == ConnectorActionEarlier(connectors, shop, action, connectorId, db)
        IN  /\ vin' = [version |-> "earlier", shop |-> shop, action |-> action,
                       connectorId |-> connectorId]
            /\ connectors' = out.table
            /\ resp' = <<out.status>>
            /\ rbody' = <<out.message>>
            /\ UNCHANGED <<env, sessions, vout, hlog, req, pc, loc, redeliv>>

NextConnector ==
    \/ SubmitConnector
    \/ SubmitConnectorEarlier

SpecConnector == InitConnector /\ [][NextConnector]_vars

\* At most one row per shop
OneRowPerShop == \A r1, r2 \in connectors : r1.shop = r2.shop => r1 = r2

\* isActive is true exactly in the rows with a connector ID
ActiveIffConnector == \A r \in connectors : r.isActive <=> (r.connectorId # Null)

\* A submission that is answered with an error status, or is not a save
SubmissionWithoutSave == resp'[1] >= 400 \/ vin'.action # "save"

\* C30: after any sequence of form submissions the ConnectorConfig table
\* has at most one row per shop and isActive is true exactly in the rows
\* with a connector ID; and a submission answered with an error status, a
\* 'test' and a submission with no or an unknown action leave the table
\* as it was.
C30_ConnectorTable ==
    /\ [](OneRowPerShop /\ ActiveIffConnector)
    /\ [][SubmissionWithoutSave => connectors' = connectors]_vars

C30_Witness ==
    /\ vin.action = "save"
    /\ resp[1] = 400
    /\ \E r \in connectors :
            r.shop = vin.shop /\ ~r.isActive /\ r.connectorId = Null
    /\ \E r \in connectors : r.shop # vin.shop /\ r.isActive

====
